---- MODULE Spec2Model ----
(***************************************************************************)
(* A model of scyscrapers.py: the checker of a finished skyscraper board.  *)
(* Characters are their code points, a string is a sequence of characters, *)
(* a board is a sequence of strings.  A Python bool is "True" or "False";  *)
(* an exception that leaves a function is the exception's name.            *)
(***************************************************************************)
EXTENDS Integers, Sequences, FiniteSets, TLC

VARIABLES entry, fileStatus, fileRows, pc, handle, board, evaluated, result,
          input_line, pivot, called, ret, columns, edits

vars == <<entry, fileStatus, fileRows, pc, handle, board, evaluated, result,
          input_line, pivot, called, ret, columns, edits>>

runVars == <<entry, fileStatus, fileRows, pc, handle, evaluated, result>>
callVars == <<input_line, pivot, called, ret, columns>>

(***************************************************************************)
(* Bounds of the model.                                                    *)
(***************************************************************************)
MaxN == 8
MaxEdits == 1
MaxBuildings == 3
MaxHeight == 3

(***************************************************************************)
(* Characters and the string operations the code uses.                     *)
(***************************************************************************)
Star == 42
QMark == 63
Zero == 48
Nine == 57
NumColumns == 5

Digit(n) == Zero + n

isdigit(c) == c >= Zero /\ c <= Nine

\* int(c) of a one-character string: the digit's value, or ValueError
IntRaises(c) == ~isdigit(c)
IntValue(c) == c - Zero

\* s[1:-1]
Slice(s) == IF Len(s) <= 2 THEN <<>> ELSE SubSeq(s, 2, Len(s) - 1)

\* s[1:]
Rest(s) == IF Len(s) <= 1 THEN <<>> ELSE SubSeq(s, 2, Len(s))

\* s[::-1]
Reverse(s) == [i \in 1..Len(s) |-> s[Len(s) + 1 - i]]

\* set(s)
CharSet(s) == {s[i] : i \in 1..Len(s)}

\* c in s
Contains(s, c) == \E i \in 1..Len(s) : s[i] = c

(***************************************************************************)
(* left_to_right_check                                                     *)
(***************************************************************************)
\* a building as tall as the tallest so far counted as visible
TallerOrEqual(building, other) == building <= other

\* "if building < other": characters compare by code point
Taller(building, other) == building < other

\* the for loop over buildings[1:], from its i-th element on; the value is
\* visible_buildings when the loop ends
RECURSIVE ScanLoop(_, _, _, _)
ScanLoop(others, i, building, visible_buildings) ==
    IF i > Len(others) THEN visible_buildings
    ELSE IF Taller(building, others[i])
         THEN ScanLoop(others, i + 1, others[i], visible_buildings + 1)
         ELSE ScanLoop(others, i + 1, building, visible_buildings)

left_to_right_check(line, hint) ==
    LET buildings == Slice(line) IN
    IF Len(buildings) = 0 THEN "IndexError"
    ELSE IF ScanLoop(Rest(buildings), 1, buildings[1], 1) = hint
         THEN "True" ELSE "False"

(***************************************************************************)
(* check_not_finished_board                                                *)
(***************************************************************************)
RECURSIVE NotFinishedLoop(_, _)
NotFinishedLoop(rows, i) ==
    IF i > Len(rows) THEN "True"
    ELSE IF Contains(rows[i], QMark) THEN "False"
         ELSE NotFinishedLoop(rows, i + 1)

\* the frame rows left out of the scan
check_not_finished_interior(b) == NotFinishedLoop(Slice(b), 1)

check_not_finished_board(b) == NotFinishedLoop(b, 1)

(***************************************************************************)
(* check_uniqueness_in_rows                                                *)
(***************************************************************************)
\* the test of the buildings left out: only the two edges are looked at
UniqRowEdgesOnly(row) ==
    IF Len(row) = 0 THEN "IndexError"
    ELSE IF isdigit(row[1]) /\ isdigit(row[Len(row)]) THEN "False"
    ELSE "Continue"

\* the body of the loop for one row: "False" (return False), an exception,
\* or "Continue" (go on with the next row)
UniqRow(row) ==
    LET buildings == Slice(row) IN
    IF Len(buildings) # Cardinality(CharSet(buildings)) THEN "False"
    ELSE IF Len(row) = 0 THEN "IndexError"
    ELSE IF isdigit(row[1]) /\ isdigit(row[Len(row)]) THEN "False"
    ELSE "Continue"

RECURSIVE UniqLoop(_, _)
UniqLoop(rows, i) ==
    IF i > Len(rows) THEN "True"
    ELSE LET v == UniqRow(rows[i]) IN
         IF v = "Continue" THEN UniqLoop(rows, i + 1) ELSE v

\* the frame rows never dropped
check_uniqueness_in_all_rows(b, row) == UniqLoop(b, 1)

check_uniqueness_in_rows(b, row) ==
    UniqLoop(IF row THEN Slice(b) ELSE b, 1)

(***************************************************************************)
(* check_horizontal_visibility                                             *)
(***************************************************************************)
\* the body of the loop for one row
VisRow(row) ==
    IF Len(row) = 0 THEN "IndexError"
    ELSE LET first == row[1]
             last  == row[Len(row)]
         IN
         IF first = Star /\ last # Star
         THEN \* left_to_right_direction = False, hint = int(row[-1])
              IF IntRaises(last) THEN "ValueError"
              ELSE LET v == left_to_right_check(Reverse(row), IntValue(last)) IN
                   IF v = "True" THEN "Continue" ELSE v
         ELSE IF first # Star /\ last = Star
         THEN \* left_to_right_direction = True, hint = int(row[0])
              IF IntRaises(first) THEN "ValueError"
              ELSE LET v == left_to_right_check(row, IntValue(first)) IN
                   IF v = "True" THEN "Continue" ELSE v
         ELSE \* left_to_right_direction is None
              "Continue"

RECURSIVE VisLoop(_, _)
VisLoop(rows, i) ==
    IF i > Len(rows) THEN "True"
    ELSE LET v == VisRow(rows[i]) IN
         IF v = "Continue" THEN VisLoop(rows, i + 1) ELSE v

check_horizontal_visibility(b, row) ==
    VisLoop(IF row THEN Slice(b) ELSE b, 1)

(***************************************************************************)
(* get_board_columns and check_columns                                     *)
(***************************************************************************)
\* row[i] for i in range(1, 5 + 1) is out of range for a row shorter than 6
GetColumnsRaises(b) == \E r \in 1..Len(b) : Len(b[r]) <= NumColumns

ColumnAt(b, i) == [r \in 1..Len(b) |-> b[r][i + 1]]

get_board_columns(b) == [i \in 1..NumColumns |-> ColumnAt(b, i)]

check_columns(b) ==
    IF GetColumnsRaises(b) THEN "IndexError"
    ELSE LET u == check_uniqueness_in_rows(get_board_columns(b), FALSE) IN
         IF u = "True"
         THEN check_horizontal_visibility(get_board_columns(b), FALSE)
         ELSE u

(***************************************************************************)
(* The inputs: the board of the doctests, the same board with the column   *)
(* that is hinted at both ends hinted at the top only, and a hint-free     *)
(* Latin square of every size up to MaxN; each with up to MaxEdits         *)
(* characters replaced or exchanged with a neighbour.                         *)
(***************************************************************************)
ExampleCells ==
    << <<0, 0, 0, 2, 1, 0, 0>>,
       <<4, 1, 2, 4, 5, 3, 0>>,
       <<4, 2, 3, 1, 4, 5, 0>>,
       <<0, 5, 4, 3, 2, 1, 5>>,
       <<0, 3, 5, 2, 1, 4, 0>>,
       <<0, 4, 1, 5, 3, 2, 0>>,
       <<0, 2, 0, 1, 0, 0, 0>> >>

Enc(n) == IF n = 0 THEN Star ELSE Digit(n)

Example == [r \in 1..7 |-> [c \in 1..7 |-> Enc(ExampleCells[r][c])]]

ExampleOneSided == [Example EXCEPT ![7][4] = Star]

Latin(n) ==
    [r \in 1..n |-> [c \in 1..n |->
        IF r \in {1, n} \/ c \in {1, n} THEN Star
        ELSE Digit(((r + c) % (n - 2)) + 1)]]

Bases == {Example, ExampleOneSided} \cup {Latin(n) : n \in 0..MaxN}

EditChars == {Star, QMark, Digit(2), Digit(5)}

Cells(b) == {<<r, c>> : r \in 1..Len(b), c \in 1..Len(b)}

\* one character replaced
Edit(b, cell, ch) == [b EXCEPT ![cell[1]][cell[2]] = ch]

\* two neighbouring characters exchanged
Swap(b, cell, other) ==
    IF other \in Cells(b)
    THEN [b EXCEPT ![cell[1]][cell[2]] = b[other[1]][other[2]],
                   ![other[1]][other[2]] = b[cell[1]][cell[2]]]
    ELSE b

EditsOf(b) ==
    {Edit(b, cell, ch) : cell \in Cells(b), ch \in EditChars}
      \cup {Swap(b, cell, <<cell[1], cell[2] + 1>>) : cell \in Cells(b)}
      \cup {Swap(b, cell, <<cell[1] + 1, cell[2]>>) : cell \in Cells(b)}

EdgeChars == {Star, Digit(1), Digit(MaxHeight)}

BuildingSeqs == UNION {[1..n -> {Digit(h) : h \in 1..MaxHeight}] : n \in 1..MaxBuildings}

Lines == {<<l>> \o bs \o <<r>> : l \in EdgeChars, bs \in BuildingSeqs, r \in EdgeChars}

Pivots == (0 - 1)..(MaxBuildings + 1)

IdleRun ==
    /\ entry = "none" /\ fileStatus = "none" /\ fileRows = <<>>
    /\ pc = "idle" /\ handle = "none" /\ evaluated = <<>> /\ result = "None"

(***************************************************************************)
(* The entry points check_skyscrapers and read_input, step by step.        *)
(***************************************************************************)
\* a close() at the end of the block instead of a with statement
LeaveWithoutFinally(h, how) == IF how = "raise" THEN h ELSE "closed"

\* the handle after control leaves the with block, by a return or a raise
LeaveWith(h, how) == "closed"

Init ==
    /\ entry \in {"check_skyscrapers", "read_input"}
    /\ fileStatus \in {"missing", "unreadable", "ok"}
    /\ fileRows \in (IF fileStatus = "ok" THEN Bases ELSE {<<>>})
    /\ edits = 0
    /\ pc = "call"
    /\ handle = "none"
    /\ board = <<>>
    /\ evaluated = <<>>
    /\ result = "None"
    /\ input_line = <<>> /\ pivot = 0 /\ called = "none" /\ ret = "None"
    /\ columns = <<>>

\* before the call, the file is written: one more character of it is
\* replaced or exchanged with a neighbour
EditFile ==
    /\ pc = "call"
    /\ fileStatus = "ok"
    /\ edits < MaxEdits
    /\ edits' = edits + 1
    /\ fileRows' \in EditsOf(fileRows)
    /\ UNCHANGED <<entry, fileStatus, pc, handle, board, evaluated, result>>
    /\ UNCHANGED callVars

\* open(path, 'r')
Open ==
    /\ pc = "call"
    /\ IF fileStatus = "missing"
       THEN /\ pc' = "raised"
            /\ result' = "FileNotFoundError"
            /\ handle' = handle
       ELSE /\ pc' = "read"
            /\ handle' = "open"
            /\ result' = result
    /\ UNCHANGED <<entry, fileStatus, fileRows, board, evaluated>>
    /\ UNCHANGED <<callVars, edits>>

\* file.read().splitlines()
Read ==
    /\ pc = "read"
    /\ IF fileStatus = "unreadable"
       THEN /\ pc' = "raised"
            /\ result' = "OSError"
            /\ handle' = LeaveWith(handle, "raise")
            /\ board' = board
       ELSE /\ board' = fileRows
            /\ result' = result
            /\ IF entry = "read_input"
               THEN pc' = "return_rows" /\ handle' = LeaveWith(handle, "return")
               ELSE pc' = "row_uniqueness" /\ handle' = handle
    /\ UNCHANGED <<entry, fileStatus, fileRows, evaluated>>
    /\ UNCHANGED <<callVars, edits>>

\* read_input: return rows
ReturnRows ==
    /\ pc = "return_rows"
    /\ pc' = "done"
    /\ result' = "rows"
    /\ UNCHANGED <<entry, fileStatus, fileRows, handle, board, evaluated>>
    /\ UNCHANGED <<callVars, edits>>

\* "&" in place of "and": a False operand does not end the evaluation
StepWithoutShortCircuit(v, next) ==
    IF v \in {"True", "False"}
    THEN pc' = next /\ result' = result /\ handle' = handle
    ELSE pc' = "raised" /\ result' = v /\ handle' = LeaveWith(handle, "raise")

\* one operand of the "and" chain has the value v: go on with the operand
\* next, return False, or let the exception leave the function
Step(v, next) ==
    IF v = "True"
    THEN pc' = next /\ result' = result /\ handle' = handle
    ELSE IF v = "False"
    THEN pc' = "done" /\ result' = "False" /\ handle' = LeaveWith(handle, "return")
    ELSE pc' = "raised" /\ result' = v /\ handle' = LeaveWith(handle, "raise")

Evaluate(check, v, next) ==
    /\ evaluated' = Append(evaluated, [check |-> check, outcome |-> v])
    /\ Step(v, next)
    /\ UNCHANGED <<entry, fileStatus, fileRows, board>>
    /\ UNCHANGED <<callVars, edits>>

\* check_uniqueness_in_rows(board)
EvalRowUniqueness ==
    /\ pc = "row_uniqueness"
    /\ Evaluate("row_uniqueness", check_uniqueness_in_rows(board, TRUE),
                "check_columns")

\* check_columns(board): check_uniqueness_in_rows(get_board_columns(board), False)
EvalColumnUniqueness ==
    /\ pc = "check_columns"
    /\ IF GetColumnsRaises(board)
       THEN /\ Step("IndexError", "none")
            /\ UNCHANGED <<entry, fileStatus, fileRows, board, evaluated>>
            /\ UNCHANGED <<callVars, edits>>
       ELSE Evaluate("column_uniqueness",
                     check_uniqueness_in_rows(get_board_columns(board), FALSE),
                     "check_columns_visibility")

\* check_columns calling check_horizontal_visibility without row=False
EvalCheckColumnsVisibilityDefaultRow ==
    /\ pc = "check_columns_visibility"
    /\ Evaluate("column_visibility",
                check_horizontal_visibility(get_board_columns(board), TRUE),
                "row_visibility")

\* check_columns(board): check_horizontal_visibility(get_board_columns(board), False)
EvalCheckColumnsVisibility ==
    /\ pc = "check_columns_visibility"
    /\ Evaluate("column_visibility",
                check_horizontal_visibility(get_board_columns(board), FALSE),
                "row_visibility")

\* check_horizontal_visibility(board)
EvalRowVisibility ==
    /\ pc = "row_visibility"
    /\ Evaluate("row_visibility", check_horizontal_visibility(board, TRUE),
                "column_visibility")

\* check_horizontal_visibility(get_board_columns(board))
EvalColumnVisibility ==
    /\ pc = "column_visibility"
    /\ Evaluate("column_visibility",
                check_horizontal_visibility(get_board_columns(board), TRUE),
                "return_true")

\* return True
ReturnTrue ==
    /\ pc = "return_true"
    /\ pc' = "done"
    /\ result' = "True"
    /\ handle' = LeaveWith(handle, "return")
    /\ UNCHANGED <<entry, fileStatus, fileRows, board, evaluated>>
    /\ UNCHANGED <<callVars, edits>>

Next ==
    \/ EditFile
    \/ Open
    \/ Read
    \/ ReturnRows
    \/ EvalRowUniqueness
    \/ EvalColumnUniqueness
    \/ EvalCheckColumnsVisibility
    \/ EvalRowVisibility
    \/ EvalColumnVisibility
    \/ ReturnTrue

Spec == Init /\ [][Next]_vars

(***************************************************************************)
(* The functions of the module called on a board, one call per behaviour   *)
(* (the checks of the derived columns follow a call of get_board_columns). *)
(***************************************************************************)
InitBoard ==
    /\ IdleRun
    /\ board \in Bases
    /\ edits = 0
    /\ input_line = <<>> /\ pivot = 0
    /\ called = "none" /\ ret = "None" /\ columns = <<>>

Return(name, value) ==
    /\ called' = name
    /\ ret' = value
    /\ UNCHANGED <<board, input_line, pivot, edits>>
    /\ UNCHANGED runVars

\* before the call, the caller's board differs in one more character
EditBoard ==
    /\ called = "none"
    /\ edits < MaxEdits
    /\ edits' = edits + 1
    /\ board' \in EditsOf(board)
    /\ UNCHANGED <<input_line, pivot, called, ret, columns>>
    /\ UNCHANGED runVars

CallNotFinished ==
    /\ called = "none"
    /\ Return("check_not_finished_board", check_not_finished_board(board))
    /\ UNCHANGED columns

CallUniquenessRows ==
    /\ called = "none"
    /\ Return("check_uniqueness_in_rows", check_uniqueness_in_rows(board, TRUE))
    /\ UNCHANGED columns

CallVisibilityRows ==
    /\ called = "none"
    /\ Return("check_horizontal_visibility", check_horizontal_visibility(board, TRUE))
    /\ UNCHANGED columns

CallGetColumns ==
    /\ called = "none"
    /\ IF GetColumnsRaises(board)
       THEN Return("get_board_columns", "IndexError") /\ UNCHANGED columns
       ELSE Return("get_board_columns", "Returned")
            /\ columns' = get_board_columns(board)

CallUniquenessColumns ==
    /\ called = "get_board_columns" /\ ret = "Returned"
    /\ Return("check_uniqueness_in_rows(columns)",
              check_uniqueness_in_rows(columns, FALSE))
    /\ UNCHANGED columns

CallVisibilityColumns ==
    /\ called = "get_board_columns" /\ ret = "Returned"
    /\ Return("check_horizontal_visibility(columns)",
              check_horizontal_visibility(columns, FALSE))
    /\ UNCHANGED columns

CallCheckColumns ==
    /\ called = "none"
    /\ Return("check_columns", check_columns(board))
    /\ UNCHANGED columns

NextBoard ==
    \/ EditBoard
    \/ CallNotFinished
    \/ CallUniquenessRows
    \/ CallVisibilityRows
    \/ CallGetColumns
    \/ CallUniquenessColumns
    \/ CallVisibilityColumns
    \/ CallCheckColumns

SpecBoard == InitBoard /\ [][NextBoard]_vars

(***************************************************************************)
(* left_to_right_check called on a line and a pivot.                       *)
(***************************************************************************)
InitLine ==
    /\ IdleRun
    /\ board = <<>>
    /\ edits = 0
    /\ input_line \in Lines
    /\ pivot \in Pivots
    /\ called = "none" /\ ret = "None" /\ columns = <<>>

CallLeftToRight ==
    /\ called = "none"
    /\ called' = "left_to_right_check"
    /\ ret' = left_to_right_check(input_line, pivot)
    /\ UNCHANGED <<board, input_line, pivot, columns, edits>>
    /\ UNCHANGED runVars

NextLine == CallLeftToRight

SpecLine == InitLine /\ [][NextLine]_vars

(***************************************************************************)
(* Properties.                                                             *)
(***************************************************************************)
Terminal == pc \in {"done", "raised"}

Is7x7(b) == Len(b) = 7 /\ \A r \in 1..7 : Len(b[r]) = 7

Distinct(s) == \A i, j \in 1..Len(s) : i # j => s[i] # s[j]

\* the number of buildings strictly taller than every building before them
Peaks(s) == Cardinality({i \in 1..Len(s) : \A j \in 1..(i - 1) : s[j] < s[i]})

BoolOf(p) == IF p THEN "True" ELSE "False"

\* C5: left_to_right_check(line, pivot) is True exactly when pivot is the
\* number of buildings of line[1:-1] strictly taller than all buildings before
\* them, and the two edge characters do not affect the result.
C5_LeftToRightCountsPeaks ==
    called = "left_to_right_check" =>
        /\ ret = BoolOf(pivot = Peaks(Slice(input_line)))
        /\ \A l, r \in EdgeChars :
              left_to_right_check(<<l>> \o Slice(input_line) \o <<r>>, pivot) = ret

\* a line with a building as tall as the one before it, edges that are digits
\* other than the pivot, and the answer True
C5_Witness ==
    /\ called = "left_to_right_check"
    /\ ret = "True"
    /\ pivot = 2
    /\ Len(input_line) = 5
    /\ input_line[2] = input_line[3]
    /\ isdigit(input_line[1]) /\ IntValue(input_line[1]) # pivot
    /\ isdigit(input_line[5]) /\ IntValue(input_line[5]) # pivot

InteriorRowOk(row) ==
    /\ Distinct(Slice(row))
    /\ ~(isdigit(row[1]) /\ isdigit(row[Len(row)]))

WithFrame(b, ch) ==
    [r \in 1..Len(b) |->
        IF r \in {1, Len(b)} THEN [c \in 1..Len(b[r]) |-> ch] ELSE b[r]]

\* C6: check_uniqueness_in_rows(board) is True exactly when every interior
\* row has pairwise distinct characters in row[1:-1] and does not have digits
\* at both edges; the first and the last row do not change the result.
C6_UniquenessOfInteriorRows ==
    called = "check_uniqueness_in_rows" =>
        /\ ret = BoolOf(\A r \in 2..(Len(board) - 1) : InteriorRowOk(board[r]))
        /\ \A ch \in EditChars :
              check_uniqueness_in_rows(WithFrame(board, ch), TRUE) = ret

\* the answer True on a board whose frame rows would fail the test
C6_Witness ==
    /\ called = "check_uniqueness_in_rows"
    /\ ret = "True"
    /\ Is7x7(board)
    /\ ~InteriorRowOk(board[1])
    /\ ~InteriorRowOk(board[7])

\* C8: check_not_finished_board(board) is False exactly when '?' occurs in
\* some row, and True otherwise, whatever the other checks say of the board.
C8_NotFinishedIffQuestionMark ==
    called = "check_not_finished_board" =>
        ret = BoolOf(~(\E r \in 1..Len(board) : \E c \in 1..Len(board[r]) :
                          board[r][c] = QMark))

\* an unfinished board that passes the uniqueness and visibility checks
C8_Witness ==
    /\ called = "check_not_finished_board"
    /\ ret = "False"
    /\ check_uniqueness_in_rows(board, TRUE) = "True"
    /\ check_columns(board) = "True"
    /\ check_horizontal_visibility(board, TRUE) = "True"

FromFile == entry = "check_skyscrapers" /\ fileStatus = "ok"

RowUniqueness(b) == check_uniqueness_in_rows(b, TRUE)
ColumnUniqueness(b) == check_uniqueness_in_rows(get_board_columns(b), FALSE)
RowVisibility(b) == check_horizontal_visibility(b, TRUE)
ColumnVisibility(b) == check_horizontal_visibility(get_board_columns(b), FALSE)

\* the buildings of the interior column c of a 7x7 board, top to bottom
ColumnSegment(b, c) == [r \in 1..5 |-> b[r + 1][c]]

\* the hint character, if a digit, is the number of peaks of the buildings
HintHolds(hint, buildings) == isdigit(hint) => IntValue(hint) = Peaks(buildings)

RuleCompliant(b) ==
    /\ Is7x7(b)
    /\ \A r, c \in 2..6 : isdigit(b[r][c])
    /\ \A i \in 1..7 : \A e \in {b[i][1], b[i][7], b[1][i], b[7][i]} :
          isdigit(e) \/ e = Star
    /\ \A r \in 2..6 :
          /\ Distinct(Slice(b[r]))
          /\ HintHolds(b[r][1], Slice(b[r]))
          /\ HintHolds(b[r][7], Reverse(Slice(b[r])))
    /\ \A c \in 2..6 :
          /\ Distinct(ColumnSegment(b, c))
          /\ HintHolds(b[1][c], ColumnSegment(b, c))
          /\ HintHolds(b[7][c], Reverse(ColumnSegment(b, c)))

\* C1: on a 7x7 board whose interior rows and columns hold pairwise distinct
\* digits and whose every edge hint digit is the number of peaks seen from
\* that edge, check_skyscrapers returns True, also when a row or a column is
\* hinted at both ends.
C1_CompliantBoardPasses ==
    (Terminal /\ FromFile /\ RuleCompliant(board)) =>
        (pc = "done" /\ result = "True")

DupDigit(s) == \E i, j \in 1..Len(s) : i < j /\ s[i] = s[j] /\ isdigit(s[i])

RowDup(b) == \E r \in 2..6 : DupDigit(Slice(b[r]))
ColDup(b) == \E c \in 2..6 : DupDigit(ColumnSegment(b, c))

\* C2: on a 7x7 board, a digit twice among the buildings of an interior row
\* (column) makes the uniqueness check of the rows (of the derived columns)
\* return False, and check_skyscrapers return False.
C2_DuplicateFailsTheBoard ==
    (Terminal /\ FromFile /\ Is7x7(board)) =>
        /\ RowDup(board) => RowUniqueness(board) = "False"
        /\ ColDup(board) => ColumnUniqueness(board) = "False"
        /\ (RowDup(board) \/ ColDup(board)) => (pc = "done" /\ result = "False")

\* a column with a duplicate on a board whose rows pass: the run returns
\* False out of the column check
C2_Witness ==
    /\ Terminal /\ FromFile /\ Is7x7(board)
    /\ ColDup(board) /\ ~RowDup(board)
    /\ Len(evaluated) = 2
    /\ evaluated[1].outcome = "True"
    /\ evaluated[2] = [check |-> "column_uniqueness", outcome |-> "False"]
    /\ result = "False"

MismatchedHint(line) ==
    /\ Len(line) >= 3
    /\ \/ ~HintHolds(line[1], Slice(line))
       \/ ~HintHolds(line[Len(line)], Reverse(Slice(line)))

\* C3: a hint digit at an edge of an interior row (of a derived column) that
\* differs from the number of peaks seen from that edge makes
\* check_horizontal_visibility of the rows (of the derived columns) return
\* False, whatever the opposite edge holds.
C3_MismatchedHintFails ==
    /\ (called = "check_horizontal_visibility"
          /\ \E r \in 2..(Len(board) - 1) : MismatchedHint(board[r]))
       => ret = "False"
    /\ (called = "check_horizontal_visibility(columns)"
          /\ \E k \in 1..Len(columns) : MismatchedHint(columns[k]))
       => ret = "False"

NoCheckRaises(b) ==
    {RowUniqueness(b), ColumnUniqueness(b), RowVisibility(b), ColumnVisibility(b)}
        \subseteq {"True", "False"}

\* C4: on a 7x7 board on which no check raises, check_skyscrapers returns
\* True exactly when row uniqueness, column uniqueness, row visibility and
\* column visibility (of all five derived columns) all return True.
C4_VerdictIsTheFourChecks ==
    (Terminal /\ FromFile /\ Is7x7(board) /\ NoCheckRaises(board)) =>
        /\ pc = "done"
        /\ result = BoolOf(/\ RowUniqueness(board) = "True"
                           /\ ColumnUniqueness(board) = "True"
                           /\ RowVisibility(board) = "True"
                           /\ ColumnVisibility(board) = "True")

\* the verdict False that only the visibility of a first or last derived
\* column decides
C4_Witness ==
    /\ Terminal /\ FromFile /\ Is7x7(board)
    /\ result = "False"
    /\ RowUniqueness(board) = "True"
    /\ ColumnUniqueness(board) = "True"
    /\ RowVisibility(board) = "True"
    /\ ColumnVisibility(board) = "False"
    /\ check_horizontal_visibility(get_board_columns(board), TRUE) = "True"

\* C7: a square board of N >= 3 rows has N-2 derived columns of length N,
\* the k-th made of the characters at index k of every row, top to bottom.
C7_ColumnsOfSquareBoard ==
    (called = "get_board_columns" /\ Len(board) >= 3) =>
        /\ ret = "Returned"
        /\ Len(columns) = Len(board) - 2
        /\ \A k \in 1..(Len(board) - 2) :
              /\ Len(columns[k]) = Len(board)
              /\ \A r \in 1..Len(board) : columns[k][r] = board[r][k + 1]

Names(e) == [i \in 1..Len(e) |-> e[i].check]

IsPrefix(s, t) == Len(s) <= Len(t) /\ \A i \in 1..Len(s) : s[i] = t[i]

WasEvaluated(check) == \E i \in 1..Len(evaluated) : evaluated[i].check = check

ShortCircuit == \A i \in 1..(Len(evaluated) - 1) : evaluated[i].outcome = "True"

ClaimedOrder ==
    <<"row_uniqueness", "column_uniqueness", "row_visibility", "column_visibility">>

CodeOrder ==
    <<"row_uniqueness", "column_uniqueness", "column_visibility",
      "row_visibility", "column_visibility">>

\* C9 as claimed: the checks run in the order row uniqueness, column
\* uniqueness, row visibility, column visibility, none after a False, and
\* column visibility never on a board whose row visibility check fails.
C9_ClaimedOrderOfChecks ==
    /\ IsPrefix(Names(evaluated), ClaimedOrder)
    /\ ShortCircuit
    /\ WasEvaluated("column_visibility") => RowVisibility(board) # "False"

\* C9 as amended: the checks run in the order row uniqueness, column
\* uniqueness, column visibility (the three of them up to the end of
\* check_columns), row visibility, column visibility again; none is evaluated
\* after one that returned False or raised; row visibility is never evaluated
\* on a board whose column visibility check does not return True.
C9_OrderOfChecks ==
    /\ IsPrefix(Names(evaluated), CodeOrder)
    /\ ShortCircuit
    /\ WasEvaluated("row_visibility") => ColumnVisibility(board) = "True"
    /\ (pc = "done" /\ result = "True") => Names(evaluated) = CodeOrder

\* column visibility was evaluated on a board whose row visibility check fails
C9_Witness ==
    /\ Terminal /\ FromFile
    /\ WasEvaluated("column_visibility")
    /\ RowVisibility(board) = "False"

CheckPcs ==
    {"row_uniqueness", "check_columns", "check_columns_visibility",
     "row_visibility", "column_visibility", "return_true"}

\* C10 as claimed: the handle is released before any check is evaluated,
\* and on every exit path.
C10_ReleasedBeforeTheChecks ==
    /\ pc \in CheckPcs => handle = "closed"
    /\ Terminal => handle # "open"

\* C10 as amended: the handle is released on every exit path (a return, a
\* read error, an error raised by a check; no handle exists when the file
\* could not be opened); read_input releases it right after the read, before
\* it returns the rows; check_skyscrapers holds it open while the checks are
\* evaluated and releases it when it returns or raises.
C10_ReleasedOnEveryExit ==
    /\ Terminal => handle # "open"
    /\ (Terminal /\ result # "FileNotFoundError") => handle = "closed"
    /\ (entry = "read_input" /\ pc = "return_rows") => handle = "closed"
    /\ pc \in CheckPcs => handle = "open"

\* a check raised on a malformed board and the handle is closed
C10_Witness ==
    /\ pc = "raised"
    /\ evaluated # <<>>
    /\ result \in {"IndexError", "ValueError"}
    /\ handle = "closed"

====
